---- MODULE Spec2Model ----
(***************************************************************************)
(* Model of the pricing calculator: the Flask application                  *)
(* (src/app_flask.py) and the state of the Reflex form                     *)
(* (src/pricing_app/pricing_app.py).                                       *)
(*                                                                         *)
(* Texts are sequences of one-character strings.  Python floats are        *)
(* modelled as exact rationals n/d in lowest terms, extended with the      *)
(* IEEE values inf, -inf and nan that float() and float arithmetic         *)
(* produce; None and a raised ZeroDivisionError are further kinds of the   *)
(* same record shape.                                                      *)
(***************************************************************************)
EXTENDS Integers, Sequences, FiniteSets, TLC

VARIABLES
    pc,               \* position of the caller: which operation ran last
    ingredient_name,  \* request field ingredient_name
    quantity_input,   \* request field quantity_input
    price_input,      \* request field price_input
    parsed,           \* last return value of parse_quantity
    prev_parsed,      \* return value of parse_quantity before the text was re-typed
    result,           \* last return value of calculate_pricing
    divisor,          \* total_grams as used by the division of calculate_pricing
    upload,           \* the /upload request: file part, filename, file content
    response,         \* last return value of upload_file
    selected_unit,    \* PricingState.selected_unit
    results,          \* PricingState.results
    error_message,    \* PricingState.error_message
    shown_for         \* the inputs of the last calculate_pricing event of the form

\* the variables of a bulk upload
bulk_vars == <<upload, response>>

\* the variables of the Reflex form other than the three input texts
form_vars == <<selected_unit, results, error_message, shown_for>>

vars == <<pc, ingredient_name, quantity_input, price_input, parsed, prev_parsed,
          result, divisor, upload, response, selected_unit, results,
          error_message, shown_for>>

---------------------------------------------------------------------------
(* Characters *)

Digits == {"0", "1", "2", "3", "4", "5", "6", "7", "8", "9"}

LowerSeq == <<"a", "b", "c", "d", "e", "f", "g", "h", "i", "j", "k", "l", "m",
              "n", "o", "p", "q", "r", "s", "t", "u", "v", "w", "x", "y", "z">>

UpperSeq == <<"A", "B", "C", "D", "E", "F", "G", "H", "I", "J", "K", "L", "M",
              "N", "O", "P", "Q", "R", "S", "T", "U", "V", "W", "X", "Y", "Z">>

\* the regex class [a-z]
LowerLetters == {LowerSeq[i] : i \in 1..26}

UpperLetters == {UpperSeq[i] : i \in 1..26}

\* the characters str.strip() and float() treat as whitespace
Whitespace == {" ", "\t", "\n"}

\* str.lower() on one character
LowerChar(c) ==
    IF c \in UpperLetters
    THEN LowerSeq[CHOOSE i \in 1..26 : UpperSeq[i] = c]
    ELSE c

\* str.upper() on one character
UpperChar(c) ==
    IF c \in LowerLetters
    THEN UpperSeq[CHOOSE i \in 1..26 : LowerSeq[i] = c]
    ELSE c

---------------------------------------------------------------------------
(* Text helpers *)

\* str.lower()
lower(s) == [i \in 1..Len(s) |-> LowerChar(s[i])]

\* str.replace(" ", ""): removes the space character only
NotSpaceChar(c) == c # " "

replace_spaces(s) == SelectSeq(s, NotSpaceChar)

\* length of the longest run of characters of class cls starting at s[i]
RunLen(s, i, cls) ==
    IF i > Len(s) THEN 0
    ELSE (CHOOSE j \in i..(Len(s) + 1) :
            /\ j = Len(s) + 1 \/ s[j] \notin cls
            /\ \A m \in i..(j - 1) : s[m] \in cls) - i

\* length of the longest run of characters of class cls ending at the end of s
RunLenBack(s, cls) ==
    Len(s) - (CHOOSE j \in 0..Len(s) :
                /\ j = 0 \/ s[j] \notin cls
                /\ \A m \in (j + 1)..Len(s) : s[m] \in cls)

lstrip(s) == SubSeq(s, RunLen(s, 1, Whitespace) + 1, Len(s))

rstrip(s) == SubSeq(s, 1, Len(s) - RunLenBack(s, Whitespace))

\* str.strip()
strip(s) == rstrip(lstrip(s))

\* length matched at s[i] by \d+(?:\.\d+)? (0: no match)
DecimalLen(s, i) ==
    LET n == RunLen(s, i, Digits)
        f == IF n > 0 /\ i + n <= Len(s) /\ s[i + n] = "."
             THEN RunLen(s, i + n + 1, Digits)
             ELSE 0
    IN  IF n = 0 THEN 0 ELSE IF f > 0 THEN n + 1 + f ELSE n

---------------------------------------------------------------------------
(* Python float values *)

RECURSIVE GCD(_, _)
GCD(a, b) == IF b = 0 THEN a ELSE GCD(b, a % b)

Abs(a) == IF a < 0 THEN -a ELSE a

RECURSIVE Pow10(_)
Pow10(k) == IF k = 0 THEN 1 ELSE 10 * Pow10(k - 1)

\* the finite float n/d (d > 0), in lowest terms
Fin(n, d) ==
    LET g == GCD(Abs(n), d)
    IN  [k |-> "fin", n |-> n \div g, d |-> d \div g]

\* float('inf') (sgn = 1) and float('-inf') (sgn = -1)
Inf(sgn) == [k |-> "inf", n |-> sgn, d |-> 0]

NaN == [k |-> "nan", n |-> 0, d |-> 0]

\* Python's None where a float is expected
None == [k |-> "none", n |-> 0, d |-> 0]

\* float(text) raised ValueError
ValueError == [k |-> "ValueError", n |-> 0, d |-> 0]

\* a float division raised ZeroDivisionError
ZeroDivisionError == [k |-> "ZeroDivisionError", n |-> 0, d |-> 0]

Sign(a) == IF a < 0 THEN -1 ELSE IF a > 0 THEN 1 ELSE 0

\* float multiplication a * b
FMul(a, b) ==
    IF a.k = "nan" \/ b.k = "nan" THEN NaN
    ELSE IF a.k = "inf" \/ b.k = "inf"
         THEN IF a.n = 0 \/ b.n = 0 THEN NaN ELSE Inf(Sign(a.n) * Sign(b.n))
         ELSE Fin(a.n * b.n, a.d * b.d)

\* float division a / b
FDiv(a, b) ==
    IF b.k = "fin" /\ b.n = 0 THEN ZeroDivisionError
    ELSE IF a.k = "nan" \/ b.k = "nan" THEN NaN
    ELSE IF a.k = "inf"
         THEN IF b.k = "inf" THEN NaN ELSE Inf(Sign(a.n) * Sign(b.n))
         ELSE IF b.k = "inf" THEN Fin(0, 1)
              ELSE Fin(a.n * b.d * Sign(b.n), a.d * Abs(b.n))

\* the comparison a <= 0 (False for nan)
LeZero(a) == a.k \in {"fin", "inf"} /\ a.n <= 0

\* the comparison a > 0 (False for nan)
GtZero(a) == a.k \in {"fin", "inf"} /\ a.n > 0

\* the integer a digit string denotes
RECURSIVE DigitsValue(_)
DigitsValue(ds) ==
    IF ds = <<>> THEN 0
    ELSE 10 * DigitsValue(SubSeq(ds, 1, Len(ds) - 1))
         + (CHOOSE v \in 0..9 : ds[Len(ds)] = <<"0", "1", "2", "3", "4", "5", "6", "7", "8", "9">>[v + 1])

\* a digit string without its leading zeros
StripZeros(ds) == SubSeq(ds, RunLen(ds, 1, {"0"}) + 1, Len(ds))

\* number of integer digits of the largest finite float (1.797...e308); a
\* decimal with more significant integer digits converts to inf
FloatMaxDigits == 309

\* float() of the decimal with integer digits ip and fraction digits fp
DecimalFloat(ip, fp) ==
    IF Len(StripZeros(ip)) > FloatMaxDigits THEN Inf(1)
    ELSE Fin(DigitsValue(ip) * Pow10(Len(fp)) + DigitsValue(fp), Pow10(Len(fp)))

FNeg(a) == [a EXCEPT !.n = -a.n]

\* float(text) for the unsigned body of a number: digits, digits., digits.digits,
\* .digits, or one of the words inf, infinity, nan in any case
FloatBody(b) ==
    LET n  == RunLen(b, 1, Digits)
        dot == n + 1 <= Len(b) /\ b[n + 1] = "."
        f  == IF dot THEN RunLen(b, n + 2, Digits) ELSE 0
        w  == lower(b)
    IN  IF w \in {<<"i", "n", "f">>, <<"i", "n", "f", "i", "n", "i", "t", "y">>} THEN Inf(1)
        ELSE IF w = <<"n", "a", "n">> THEN NaN
        ELSE IF n + f = 0 THEN ValueError
        ELSE IF dot /\ Len(b) = n + 1 + f
             THEN DecimalFloat(SubSeq(b, 1, n), SubSeq(b, n + 2, Len(b)))
        ELSE IF ~dot /\ Len(b) = n THEN DecimalFloat(b, <<>>)
        ELSE ValueError

\* float(text): surrounding whitespace is ignored, one leading sign is allowed
\* (exponents and digit-group underscores are not modelled: no input text
\* contains the characters e and _ next to digits)
float(text) ==
    LET t == strip(text)
    IN  IF t # <<>> /\ Head(t) = "-" THEN
            (LET v == FloatBody(Tail(t)) IN IF v.k = "ValueError" THEN v ELSE FNeg(v))
        ELSE IF t # <<>> /\ Head(t) = "+" THEN FloatBody(Tail(t))
        ELSE FloatBody(t)

\* which neighbour round() returns for a value exactly halfway between two
\* decimals: Python rounds the binary value of the float, which lies just
\* below or just above the decimal tie (or is the tie itself)
TieDirs == {"down", "up"}

\* round(a, nd) for a float a: the nearest multiple of 10^-nd
round(a, nd, tie) ==
    IF a.k # "fin" THEN a
    ELSE LET N   == a.n * Pow10(nd)
             up  == (2 * N + a.d) \div (2 * a.d)
             mid == (2 * N + a.d) % (2 * a.d) = 0
         IN  Fin(IF mid /\ tie = "down" THEN up - 1 ELSE up, Pow10(nd))

---------------------------------------------------------------------------
(* PricingCalculator.parse_quantity *)

\* an error message; unit is the unit interpolated into the text, if any
Err(msg, unit) == [msg |-> msg, unit |-> unit]

NoError == Err("", <<>>)

MissingUnit ==
    Err("Please specify the unit of measurement (kg, g, gm, mg, l, ml). Example: 400g, 1.2kg, 500mg, 2l, 250ml", <<>>)

MissingUnitMult ==
    Err("Please specify the unit of measurement. Example: 10x100g, 5x200mg, 3x1.5kg, 2x500ml", <<>>)

InvalidFormat ==
    Err("Invalid quantity format. Use formats like '10x100g', '400g', '1.2kg', '500mg'", <<>>)

UnsupportedUnit(unit) ==
    Err("Unsupported unit '{unit}'. Please use kg, g, gm, mg, l, or ml", unit)

\* re.match(r'^\d+(?:\.\d+)?$', s): $ also matches before one final newline
numeric_match(s) ==
    LET n == DecimalLen(s, 1)
    IN  n > 0 /\ (n = Len(s) \/ (n = Len(s) - 1 /\ s[Len(s)] = "\n"))

NoMatch == [matched |-> FALSE, g1 |-> <<>>, g2 |-> <<>>, g3 |-> <<>>]

\* re.match(r'(\d+)[x*](\d+(?:\.\d+)?)([a-z]*)', s): anchored at the start only
mult_match(s) ==
    LET c == RunLen(s, 1, Digits)
        a == IF c > 0 /\ c + 1 <= Len(s) /\ s[c + 1] \in {"x", "*"}
             THEN DecimalLen(s, c + 2)
             ELSE 0
        u == RunLen(s, c + 2 + a, LowerLetters)
    IN  IF a = 0 THEN NoMatch
        ELSE [matched |-> TRUE,
              g1 |-> SubSeq(s, 1, c),
              g2 |-> SubSeq(s, c + 2, c + 1 + a),
              g3 |-> SubSeq(s, c + 2 + a, c + 1 + a + u)]

\* re.match(r'(\d+(?:\.\d+)?)([a-z]*)', s): anchored at the start only
single_match(s) ==
    LET a == DecimalLen(s, 1)
        u == RunLen(s, a + 1, LowerLetters)
    IN  IF a = 0 THEN NoMatch
        ELSE [matched |-> TRUE,
              g1 |-> SubSeq(s, 1, a),
              g2 |-> SubSeq(s, a + 1, a + u),
              g3 |-> <<>>]

KgUnits == {<<"k", "g">>, <<"k", "i", "l", "o", "g", "r", "a", "m">>, <<"k", "i", "l", "o", "g", "r", "a", "m", "s">>}

GramUnits == {<<"g">>, <<"g", "m">>, <<"g", "r", "a", "m">>, <<"g", "r", "a", "m", "s">>}

MgUnits == {<<"m", "g">>, <<"m", "i", "l", "l", "i", "g", "r", "a", "m">>, <<"m", "i", "l", "l", "i", "g", "r", "a", "m", "s">>}

LitreUnits ==
    {<<"l">>, <<"l", "t", "r">>, <<"l", "i", "t", "r", "e">>, <<"l", "i", "t", "r", "e", "s">>, <<"l", "i", "t", "e", "r">>, <<"l", "i", "t", "e", "r", "s">>}

MlUnits ==
    {<<"m", "l">>, <<"m", "i", "l", "l", "i", "l", "i", "t", "r", "e">>, <<"m", "i", "l", "l", "i", "l", "i", "t", "r", "e", "s">>, <<"m", "i", "l", "l", "i", "l", "i", "t", "e", "r">>, <<"m", "i", "l", "l", "i", "l", "i", "t", "e", "r", "s">>}

Ret(grams, error) == [grams |-> grams, error |-> error]

\* the conversion chain with a litre taken for a millilitre
to_grams_litre_unscaled(total_weight, unit) ==
    IF unit \in KgUnits THEN Ret(FMul(total_weight, Fin(1000, 1)), NoError)
    ELSE IF unit \in GramUnits THEN Ret(total_weight, NoError)
    ELSE IF unit \in MgUnits THEN Ret(FDiv(total_weight, Fin(1000, 1)), NoError)
    ELSE IF unit \in LitreUnits \cup MlUnits THEN Ret(total_weight, NoError)
    ELSE Ret(None, UnsupportedUnit(unit))

\* the unit conversion chain of parse_quantity
to_grams(total_weight, unit) ==
    IF unit \in KgUnits THEN Ret(FMul(total_weight, Fin(1000, 1)), NoError)
    ELSE IF unit \in GramUnits THEN Ret(total_weight, NoError)
    ELSE IF unit \in MgUnits THEN Ret(FDiv(total_weight, Fin(1000, 1)), NoError)
    ELSE IF unit \in LitreUnits THEN Ret(FMul(total_weight, Fin(1000, 1)), NoError)
    ELSE IF unit \in MlUnits THEN Ret(total_weight, NoError)
    ELSE Ret(None, UnsupportedUnit(unit))

\* the pack count left out of the total
pack_weight_of_one(count, weight) == weight

\* total_weight = count * weight
pack_weight(count, weight) == FMul(count, weight)

\* the normalisation at the top of parse_quantity
normalize(quantity_str) == lower(replace_spaces(quantity_str))

\* parse_quantity with a missing unit defaulting to grams
parse_quantity_lenient(quantity_str) ==
    LET s  == normalize(quantity_str)
        mm == mult_match(s)
        sm == single_match(s)
        g  == <<"g">>
    IN  IF numeric_match(s) THEN Ret(None, MissingUnit)
        ELSE IF mm.matched THEN
            (LET count  == float(mm.g1)
                 weight == float(mm.g2)
                 unit   == IF mm.g3 = <<>> THEN g ELSE mm.g3
             IN  IF count.k = "ValueError" \/ weight.k = "ValueError"
                 THEN Ret(None, InvalidFormat)
                 ELSE to_grams(pack_weight(count, weight), unit))
        ELSE IF sm.matched THEN
            (LET total_weight == float(sm.g1)
                 unit         == IF sm.g2 = <<>> THEN g ELSE sm.g2
             IN  IF total_weight.k = "ValueError" THEN Ret(None, InvalidFormat)
                 ELSE to_grams(total_weight, unit))
        ELSE Ret(None, InvalidFormat)

parse_quantity(quantity_str) ==
    LET s  == normalize(quantity_str)
        mm == mult_match(s)
        sm == single_match(s)
    IN  IF numeric_match(s) THEN Ret(None, MissingUnit)
        ELSE IF mm.matched THEN
            (LET count  == float(mm.g1)
                 weight == float(mm.g2)
                 unit   == mm.g3
             IN  IF count.k = "ValueError" \/ weight.k = "ValueError"
                 THEN Ret(None, InvalidFormat)
                 ELSE IF unit = <<>> THEN Ret(None, MissingUnitMult)
                 ELSE to_grams(pack_weight(count, weight), unit))
        ELSE IF sm.matched THEN
            (LET total_weight == float(sm.g1)
                 unit         == sm.g2
             IN  IF total_weight.k = "ValueError" THEN Ret(None, InvalidFormat)
                 ELSE IF unit = <<>> THEN Ret(None, MissingUnit)
                 ELSE to_grams(total_weight, unit))
        ELSE Ret(None, InvalidFormat)

---------------------------------------------------------------------------
(* PricingCalculator.calculate_pricing *)

\* the results dict; the empty dict {} has no keys
NoResults == [keys |-> {}, kg |-> None, g |-> None, mg |-> None]

Results(kg, g, mg) == [keys |-> {"kg", "g", "mg"}, kg |-> kg, g |-> g, mg |-> mg]

\* the returned dict; raised names the exception that escaped instead, if any
Outcome(success, error, figures, name, raised) ==
    [success |-> success, error |-> error, results |-> figures,
     ingredient_name |-> name, raised |-> raised]

Failure(name, error) == Outcome(FALSE, error, NoResults, name, "")

EnterName == Err("Please enter an ingredient name.", <<>>)

EnterQuantity == Err("Please enter a quantity.", <<>>)

EnterPrice == Err("Please enter a price.", <<>>)

EnterValidPrice == Err("Please enter a valid price.", <<>>)

NonPositive == Err("Quantity must be greater than zero.", <<>>)

\* the guard before the division left out
mass_rejected_never(total_grams) == FALSE

\* the guard before the division
mass_rejected(total_grams) == LeZero(total_grams)

\* total_grams when control reaches the division, None when it returns before
division_mass(name, quantity, price_text) ==
    LET price == float(price_text)
        pq    == parse_quantity(quantity)
    IN  IF strip(name) = <<>> \/ strip(quantity) = <<>> \/ strip(price_text) = <<>>
           \/ price.k = "ValueError" \/ pq.grams.k = "none"
           \/ mass_rejected(pq.grams)
        THEN None
        ELSE pq.grams

\* the figures all rounded to 2 decimal places
unit_prices_two_places(price_per_gram, ties) ==
    Results(round(FMul(price_per_gram, Fin(1000, 1)), 2, ties[1]),
            round(price_per_gram, 2, ties[2]),
            round(FDiv(price_per_gram, Fin(1000, 1)), 2, ties[3]))

\* the figures without the scaling by 1000
unit_prices_unscaled(price_per_gram, ties) ==
    Results(round(price_per_gram, 2, ties[1]),
            round(price_per_gram, 4, ties[2]),
            round(price_per_gram, 6, ties[3]))

\* the three figures computed from price_per_gram; ties[i] is the direction
\* round() takes at a decimal tie of the i-th figure
unit_prices(price_per_gram, ties) ==
    Results(round(FMul(price_per_gram, Fin(1000, 1)), 2, ties[1]),
            round(price_per_gram, 4, ties[2]),
            round(FDiv(price_per_gram, Fin(1000, 1)), 6, ties[3]))

\* calculate_pricing with the quantity parsed before the price is checked
calculate_pricing_parse_first(name, quantity, price_text, ties) ==
    LET price == float(price_text)
        pq    == parse_quantity(quantity)
    IN  IF strip(name) = <<>> THEN Failure(name, EnterName)
        ELSE IF strip(quantity) = <<>> THEN Failure(name, EnterQuantity)
        ELSE IF pq.grams.k = "none" THEN Failure(name, pq.error)
        ELSE IF strip(price_text) = <<>> THEN Failure(name, EnterPrice)
        ELSE IF price.k = "ValueError" THEN Failure(name, EnterValidPrice)
        ELSE IF mass_rejected(pq.grams) THEN Failure(name, NonPositive)
        ELSE LET price_per_gram == FDiv(price, pq.grams)
             IN  IF price_per_gram.k = "ZeroDivisionError"
                 THEN Outcome(FALSE, NoError, NoResults, name, "ZeroDivisionError")
                 ELSE Outcome(TRUE, NoError, unit_prices(price_per_gram, ties), name, "")

calculate_pricing(name, quantity, price_text, ties) ==
    LET price == float(price_text)
        pq    == parse_quantity(quantity)
    IN  IF strip(name) = <<>> THEN Failure(name, EnterName)
        ELSE IF strip(quantity) = <<>> THEN Failure(name, EnterQuantity)
        ELSE IF strip(price_text) = <<>> THEN Failure(name, EnterPrice)
        ELSE IF price.k = "ValueError" THEN Failure(name, EnterValidPrice)
        ELSE IF pq.grams.k = "none" THEN Failure(name, pq.error)
        ELSE IF mass_rejected(pq.grams) THEN Failure(name, NonPositive)
        ELSE LET price_per_gram == FDiv(price, pq.grams)
             IN  IF price_per_gram.k = "ZeroDivisionError"
                 THEN Outcome(FALSE, NoError, NoResults, name, "ZeroDivisionError")
                 ELSE Outcome(TRUE, NoError, unit_prices(price_per_gram, ties), name, "")

---------------------------------------------------------------------------
(* Inputs *)

\* all texts over the characters cs of length at most n
TextsUpTo(cs, n) == UNION {[1..k -> cs] : k \in 0..n}

\* longest quantity text typed character by character
MaxLen == 4

\* a digit, the fraction point, a separator that is also a letter, a unit in
\* both cases, and two kinds of whitespace
QuantityChars == {"2", ".", "x", "g", "G", " ", "\t"}

ShortTexts == TextsUpTo(QuantityChars, MaxLen)

\* largest pack count and largest whole amount of a generated quantity
MaxCount == 10

MaxWhole == 10

\* str(n) for a natural number n
RECURSIVE DigitsOf(_)
DigitsOf(n) ==
    LET last == <<"0", "1", "2", "3", "4", "5", "6", "7", "8", "9">>[(n % 10) + 1]
    IN  IF n < 10 THEN <<last>> ELSE Append(DigitsOf(n \div 10), last)

Fractions == {<<>>, <<".", "5">>, <<".", "2", "5">>}

UnitTable == KgUnits \cup GramUnits \cup MgUnits \cup LitreUnits \cup MlUnits

\* letter sequences that are no unit of the table
OtherUnits ==
    {
     <<"k">>, <<"k", "g", "s">>, <<"g", "m", "s">>, <<"l", "b">>, <<"o", "z">>,
     <<"x">>, <<"x", "g">>, <<"g", "x">>, <<"l", "i", "t", "r", "e", "s", "s">>, <<"c", "l">> }

AmountTexts == {DigitsOf(a) \o f : a \in 0..MaxWhole, f \in Fractions}

\* "{count}x{amount}{unit}", "{count}*{amount}{unit}" and "{amount}{unit}"
UnitTexts ==
    {DigitsOf(c) \o <<sep>> \o a \o u :
        c \in 0..MaxCount, sep \in {"x", "*"}, a \in AmountTexts,
        u \in UnitTable \cup {<<>>}}
    \cup {a \o u : a \in AmountTexts, u \in UnitTable \cup OtherUnits \cup {<<>>}}

\* a count too large for a float, followed by x and a zero amount, and alone
HugeCount == [i \in 1..(FloatMaxDigits + 1) |-> "9"]

HugeTexts == {HugeCount \o <<"x", "0", "g">>, HugeCount \o <<"g">>,
              HugeCount \o <<"x", "2", "k", "g">>}

Names == {<<>>, <<" ">>, <<"X">>, <<" ", "X", "\t">>}

\* longest enumerated price text of a pricing request
MaxPriceLen == 2

RequestQuantities ==
    {
     <<"1", "0", "x", "1", "0", "0", "g">>, <<"2", "l">>, <<"4", "0", "0", "g">>, <<"1", ".", "2", "k", "g">>,
     <<"5", "0", "0", "m", "g">>, <<"2", "5", "0", "m", "l">>, <<"0", "x", "5", "k", "g">>, <<"0", "g">>,
     <<"4", "0", "0">>, <<"1", "0", "x", "1", "0", "0">>, <<"a", "b", "c">>, <<"5", "k", "g", "s">>,
     <<"4", "0", "0", "g", "!">>, <<>>, <<" ">>, <<"\t">>,
     <<"1", ".", "5", " ", "K", "G">>, <<"\t", "5", "g">>, <<"8", "g">>, <<"2", "g">>,
     <<"x">> }

ExamplePrices ==
    {
     <<"1", "0", "0", "0">>, <<"2", "0", "0">>, <<"1", "0">>, <<"n", "a", "n">>,
     <<"i", "n", "f">>, <<"n", "o", "t", "a", "n", "u", "m", "b", "e", "r">>, <<" ", "2", " ">>, <<"\t">> }

RequestPrices == TextsUpTo({"2", ".", "-", " ", "a"}, MaxPriceLen) \cup ExamplePrices

Rice == <<"R", "i", "c", "e">>

Oil == <<"O", "i", "l">>

---------------------------------------------------------------------------
(* upload_file *)

\* a cell of the data frame the reader returns: a text, an integer, a float,
\* or NaN for a missing value
Cell(t, s, v) == [t |-> t, s |-> s, v |-> v]

TextCell(s) == Cell("str", s, None)

IntCell(n) == Cell("int", <<>>, Fin(n, 1))

FloatCell(n, d) == Cell("float", <<>>, Fin(n, d))

NaNCell == Cell("nan", <<>>, NaN)

\* pd.notna(cell)
notna(c) == c.t # "nan"

\* the digits after the point of r/d (0 <= r < d, d a divisor of a power of
\* ten), at least one digit
RECURSIVE FractionDigits(_, _)
FractionDigits(r, d) ==
    LET q == DigitsOf((10 * r) \div d)
    IN  IF (10 * r) % d = 0 THEN q ELSE q \o FractionDigits((10 * r) % d, d)

\* str(cell): a text is itself, NaN is "nan", an integer its digits, a float
\* its shortest decimal with at least one digit after the point
str(c) ==
    IF c.t = "str" THEN c.s
    ELSE IF c.t = "nan" THEN <<"n", "a", "n">>
    ELSE LET a    == Abs(c.v.n)
             sign == IF c.v.n < 0 THEN <<"-">> ELSE <<>>
         IN  IF c.v.k = "inf" THEN sign \o <<"i", "n", "f">>
             ELSE IF c.t = "int" THEN sign \o DigitsOf(a)
             ELSE sign \o DigitsOf(a \div c.v.d) \o <<".">>
                  \o FractionDigits(a % c.v.d, c.v.d)

\* len(df.columns); an empty sheet has no columns
columns(df) == IF df = <<>> THEN 0 ELSE Len(df[1])

\* most rows of an accepted file
MaxItems == 1000

\* index of the last "." of filename, 0 when there is none
LastDot(filename) ==
    CHOOSE i \in 0..Len(filename) :
        /\ i = 0 \/ filename[i] = "."
        /\ \A j \in (i + 1)..Len(filename) : filename[j] # "."

AllowedExtensions == {<<"c", "s", "v">>, <<"x", "l", "s", "x">>, <<"x", "l", "s">>}

allowed_file(filename) ==
    /\ LastDot(filename) > 0
    /\ lower(SubSeq(filename, LastDot(filename) + 1, Len(filename))) \in AllowedExtensions

\* filename.endswith('.csv')
endswith_csv(filename) ==
    /\ Len(filename) >= 4
    /\ SubSeq(filename, Len(filename) - 3, Len(filename)) = <<".", "c", "s", "v">>

\* the status strings of a row; error is the parse error interpolated, if any
Status(text, error) == [text |-> text, error |-> error]

CalculatedSuccessfully == Status("Calculated successfully", NoError)

ErrorStatus(parse_error) == Status("Error: {parse_error}", parse_error)

QuantityNotProvided ==
    Status("Quantity was not provided, so pricing could not be calculated", NoError)

NotProvided == <<"N", "o", "t", " ", "p", "r", "o", "v", "i", "d", "e", "d">>

\* one element of the results list; figures is None when nothing was computed
RowOutcome(ingredient, quantity, pricing, figures, status) ==
    [ingredient_name |-> ingredient, quantity_input |-> quantity,
     price_input |-> pricing, results |-> figures, status |-> status]

\* ingredient, quantity and pricing of a row (lines 193-195)
ingredient_of(row) == strip(str(row[1]))

quantity_of(row) == IF notna(row[2]) THEN strip(str(row[2])) ELSE <<>>

pricing_of(row) == IF notna(row[3]) THEN row[3] ELSE IntCell(0)

\* not quantity or quantity.lower() in ['nan', 'none', '']
quantity_missing(quantity) ==
    \/ quantity = <<>>
    \/ lower(quantity) \in {<<"n", "a", "n">>, <<"n", "o", "n", "e">>, <<>>}

\* the division pricing / total_grams is evaluated for a positive mass only
divides(total_grams) == GtZero(total_grams)

\* one iteration of the loop up to the formatting, given the quantity text,
\* the pricing and the return value pq of parse_quantity: whether the
\* quantity is taken as missing, whether the iteration raises TypeError (a
\* text divided by a float), and price_per_gram (None when the division raises)
iteration(row, quantity, pricing, pq) ==
    [ingredient |-> ingredient_of(row),
     quantity |-> quantity,
     pricing |-> pricing,
     missing |-> quantity_missing(quantity),
     parse_error |-> pq.error,
     failed |-> pq.grams.k = "none",
     raises |-> /\ ~quantity_missing(quantity)
                /\ pq.grams.k # "none"
                /\ divides(pq.grams)
                /\ pricing.t = "str",
     price_per_gram |-> IF ~divides(pq.grams) THEN Fin(0, 1)
                        ELSE IF pricing.t = "str" THEN None
                        ELSE FDiv(pricing.v, pq.grams)]

parsed_iteration(row, quantity) ==
    iteration(row, quantity, pricing_of(row), parse_quantity(quantity))

\* the iteration of the loop for a row
iteration_of(row) == parsed_iteration(row, quantity_of(row))

\* the iteration for this row raises
row_raises(row) == iteration_of(row).raises

\* price_per_kg, price_per_gram and price_per_mg (lines 219-221)
scaled(price_per_gram) ==
    <<FMul(price_per_gram, Fin(1000, 1)), price_per_gram,
      FDiv(price_per_gram, Fin(1000, 1))>>

\* the figures f formatted with 2, 2 and 4 digits after the point; ties[i] is
\* the direction the formatting takes at a decimal tie of the i-th figure
formatted(f, ties) ==
    Results(round(f[1], 2, ties[1]), round(f[2], 2, ties[2]), round(f[3], 4, ties[3]))

\* a lies exactly halfway between two decimals of nd digits after the point
AtTie(a, nd) == a.k = "fin" /\ (2 * a.n * Pow10(nd) + a.d) % (2 * a.d) = 0

\* the i-th figure of the iteration is formatted and lies at a decimal tie
figure_at_tie(it, i) ==
    /\ ~it.missing
    /\ ~it.failed
    /\ ~it.raises
    /\ AtTie(scaled(it.price_per_gram)[i], <<2, 2, 4>>[i])

\* the figures of the rows of df that the formatting finds at a decimal tie,
\* as pairs of a row and the index of the figure
TiePoints(df) ==
    IF columns(df) # 3 THEN {}
    ELSE {p \in {df[i] : i \in 1..Len(df)} \X (1..3) :
            figure_at_tie(iteration_of(p[1]), p[2])}

\* the tie directions of a row when the formatting rounds down exactly at the
\* tie points in down
TiesOf(row, down) == [i \in 1..3 |-> IF <<row, i>> \in down THEN "down" ELSE "up"]

\* the outcome an iteration that does not raise appends
outcome_of(it, ties) ==
    IF it.missing
    THEN RowOutcome(it.ingredient, NotProvided, it.pricing, None, QuantityNotProvided)
    ELSE IF it.failed
    THEN RowOutcome(it.ingredient, it.quantity, it.pricing, None,
                    ErrorStatus(it.parse_error))
    ELSE RowOutcome(it.ingredient, it.quantity, it.pricing,
                    formatted(scaled(it.price_per_gram), ties), CalculatedSuccessfully)

\* the outcome the loop body appends for a row that does not raise
process_row(row, ties) == outcome_of(iteration_of(row), ties)

\* the JSON body and status code upload_file returns; reader names the reader
\* that was called, processed counts the loop iterations that ran, raised
\* names the exception the handler caught
Response(code, success, error, outcomes, reader, processed, raised) ==
    [code |-> code, success |-> success, error |-> error, results |-> outcomes,
     total_items |-> Len(outcomes), reader |-> reader, processed |-> processed,
     raised |-> raised]

Rejected(error) == Response(400, FALSE, error, <<>>, "", 0, "")

NoFileUploaded == "No file uploaded"

NoFileSelected == "No file selected"

OnlyExcelAndCsv == "Only Excel (.xlsx, .xls) and CSV files are allowed"

NotThreeColumns == "File must contain exactly 3 columns (Ingredient name, Quantity, Pricing)"

TooManyItems == "File contains more than 1000 items. Maximum allowed is 1000."

ErrorProcessingFile == "Error processing file: {str(e)}"

\* the row limit left out
over_limit_never(df) == FALSE

\* len(df) > 1000
over_limit(df) == Len(df) > MaxItems

\* number of iterations that ran before the first one that raises
rows_before_raise(its) ==
    (CHOOSE i \in 1..(Len(its) + 1) :
        /\ i = Len(its) + 1 \/ its[i].raises
        /\ \A j \in 1..(i - 1) : ~its[j].raises) - 1

\* the response after the iterations its of the loop over df: that of the
\* handler of the exception (lines 241-247) when one raises, else the list of
\* outcomes; down holds the tie points the formatting rounds down
loop_response(df, its, down) ==
    IF \E i \in 1..Len(its) : its[i].raises
    THEN Response(500, FALSE, ErrorProcessingFile, <<>>, "", rows_before_raise(its),
                  "TypeError")
    ELSE Response(200, TRUE, "",
                  [i \in 1..Len(its) |-> outcome_of(its[i], TiesOf(df[i], down))],
                  "", Len(its), "")

\* the loop over the rows (lines 190-239)
process_rows(df, down) ==
    loop_response(df, [i \in 1..Len(df) |-> iteration_of(df[i])], down)

\* upload_file for a request with the file part present or not, its filename,
\* and the data frame the reader returns for the file (readable or not)
upload_file(req, down) ==
    LET reader == IF endswith_csv(req.filename) THEN "read_csv" ELSE "read_excel"
    IN  IF ~req.has_file THEN Rejected(NoFileUploaded)
        ELSE IF req.filename = <<>> THEN Rejected(NoFileSelected)
        ELSE IF ~allowed_file(req.filename) THEN Rejected(OnlyExcelAndCsv)
        ELSE IF ~req.readable
        THEN Response(500, FALSE, ErrorProcessingFile, <<>>, reader, 0, "reader")
        ELSE IF columns(req.df) # 3
        THEN [Rejected(NotThreeColumns) EXCEPT !.reader = reader]
        ELSE IF over_limit(req.df)
        THEN [Rejected(TooManyItems) EXCEPT !.reader = reader]
        ELSE [process_rows(req.df, down) EXCEPT !.reader = reader]

---------------------------------------------------------------------------
(* PricingState (src/pricing_app/pricing_app.py) *)

\* the units PricingState.parse_quantity takes for grams; no unit is grams
FormGramUnits == {<<"g">>, <<"g", "r", "a", "m">>, <<"g", "r", "a", "m", "s">>, <<>>}

\* the unit conversion chain of PricingState.parse_quantity; no unit is grams
form_to_grams(total_weight, group) ==
    LET unit == IF group = <<>> THEN <<"g">> ELSE group
    IN  IF unit \in KgUnits THEN FMul(total_weight, Fin(1000, 1))
        ELSE IF unit \in FormGramUnits THEN total_weight
        ELSE IF unit \in MgUnits THEN FDiv(total_weight, Fin(1000, 1))
        ELSE None

\* PricingState.parse_quantity after the two patterns were tried
form_matched(mm, sm) ==
    IF mm.matched THEN form_to_grams(FMul(float(mm.g1), float(mm.g2)), mm.g3)
    ELSE IF sm.matched THEN form_to_grams(float(sm.g1), sm.g2)
    ELSE None

\* the two patterns tried on the normalised text
form_patterns(s) == form_matched(mult_match(s), single_match(s))

\* PricingState.parse_quantity: total grams, or None
PricingState_parse_quantity(quantity_str) == form_patterns(normalize(quantity_str))

FormInvalidFormat ==
    Err("Invalid quantity format. Use formats like '10x100g', '400g', '1.2kg'.", <<>>)

\* results and error_message as an event leaves them; raised names the
\* exception that ended the event, if any
Shown(figures, error, raised) ==
    [results |-> figures, error_message |-> error, raised |-> raised]

\* the results dict of lines 103-107
form_results(price_per_gram) ==
    IF price_per_gram.k = "ZeroDivisionError"
    THEN Shown(NoResults, NoError, "ZeroDivisionError")
    ELSE Shown(Results(FMul(price_per_gram, Fin(1000, 1)), price_per_gram,
                       FDiv(price_per_gram, Fin(1000, 1))), NoError, "")

\* the checks of lines 71-97 on the texts, the price and the parsed mass
form_checks(name, quantity, price_text, price, total_grams) ==
    IF strip(name) = <<>> THEN Shown(NoResults, EnterName, "")
    ELSE IF strip(quantity) = <<>> THEN Shown(NoResults, EnterQuantity, "")
    ELSE IF strip(price_text) = <<>> THEN Shown(NoResults, EnterPrice, "")
    ELSE IF price.k = "ValueError" THEN Shown(NoResults, EnterValidPrice, "")
    ELSE IF total_grams.k = "none" THEN Shown(NoResults, FormInvalidFormat, "")
    ELSE IF LeZero(total_grams) THEN Shown(NoResults, NonPositive, "")
    ELSE form_results(FDiv(price, total_grams))

\* what PricingState.calculate_pricing leaves in results and error_message
\* for the three input texts: both are cleared first (lines 68-69), then one
\* of them is set
form_pricing(name, quantity, price_text) ==
    form_checks(name, quantity, price_text, float(price_text),
                PricingState_parse_quantity(quantity))

---------------------------------------------------------------------------
(* Inputs of upload_file and of the form *)

\* most rows of an enumerated file
MaxRows == 2

NameCells == {TextCell(Rice), TextCell(<<" ">>), NaNCell}

QuantityCells ==
    {TextCell(<<"1", "k", "g">>), TextCell(<<"8", "g">>), TextCell(<<"0", "g">>),
     TextCell(<<"4", "0", "0">>), TextCell(<<"a", "b", "c">>), TextCell(<<" ">>),
     TextCell(<<" ", "N", "o", "n", "e">>), IntCell(400), FloatCell(5, 2), NaNCell}

PriceCells ==
    {IntCell(10), FloatCell(5, 2), IntCell(0), NaNCell,
     TextCell(<<"1", "0">>), TextCell(<<"a", "b", "c">>)}

\* every row of three cells
AllRows == {<<n, q, p>> : n \in NameCells, q \in QuantityCells, p \in PriceCells}

GoodRow == <<TextCell(Rice), TextCell(<<"1", "k", "g">>), IntCell(10)>>

\* the rows of the files of more than one row: a good one, and one for each
\* kind of bad content
SomeRows ==
    {GoodRow,
     <<TextCell(Oil), TextCell(<<"8", "g">>), IntCell(1)>>,
     <<TextCell(Rice), TextCell(<<"4", "0", "0">>), IntCell(10)>>,
     <<TextCell(Rice), NaNCell, IntCell(10)>>,
     <<TextCell(Rice), TextCell(<<"1", "k", "g">>), TextCell(<<"a", "b", "c">>)>>,
     <<TextCell(<<" ">>), TextCell(<<"0", "g">>), NaNCell>>}

\* data frames of three columns and up to MaxRows rows
ShortFrames ==
    {<<row>> : row \in AllRows}
    \cup UNION {[1..k -> SomeRows] : k \in 2..MaxRows}

\* a data frame of n rows, all filler but the last
LongFrame(n, filler, last) == [i \in 1..n |-> IF i = n THEN last ELSE filler]

\* data frames at the row limit and one row above it
LongFrames ==
    {LongFrame(n, GoodRow, last) : n \in {MaxItems, MaxItems + 1},
                                   last \in {GoodRow, <<TextCell(Rice), TextCell(<<"1", "k", "g">>), TextCell(<<"a", "b", "c">>)>>}}

\* data frames with another number of columns, and the empty sheet
OtherFrames ==
    {<<>>, << <<TextCell(Rice), TextCell(<<"1", "k", "g">>)>> >>,
     << <<TextCell(Rice), TextCell(<<"1", "k", "g">>), IntCell(10), NaNCell>> >>}

Filenames ==
    {<<>>, <<"a", ".", "c", "s", "v">>, <<"a", ".", "x", "l", "s", "x">>,
     <<"a", ".", "X", "L", "S">>, <<"a", ".", "C", "S", "V">>, <<"a", ".", "t", "x", "t">>,
     <<"c", "s", "v">>, <<"a", ".", "c", "s", "v", ".", "p", "d", "f">>}

Request(has_file, filename, readable, df) ==
    [has_file |-> has_file, filename |-> filename, readable |-> readable, df |-> df]

FormNames == {<<>>, <<"X">>}

FormQuantities == {<<>>, <<"2", "x", "5">>, <<"0", "g">>, <<"2", "l">>}

FormPrices == {<<>>, <<"1", "0">>, <<"a", "b", "c">>}

FormUnits == {<<"k", "g">>, <<"m", "g">>}

---------------------------------------------------------------------------
(* State machine *)

\* no upload request, and no response before upload_file has returned
NoUpload == Request(FALSE, <<>>, FALSE, <<>>)

NoResponse == Response(0, FALSE, "", <<>>, "", 0, "")

\* the inputs of a calculate_pricing event of the form; none before the first
\* event and after clear_form
Event(name, quantity, price_text) ==
    [calculated |-> TRUE, ingredient_name |-> name, quantity_input |-> quantity,
     price_input |-> price_text]

NoEvent == [Event(<<>>, <<>>, <<>>) EXCEPT !.calculated = FALSE]

NotCalled == Ret(None, NoError)

NoOutcome == Outcome(FALSE, NoError, NoResults, <<>>, "")

\* a request with the three fields set and nothing computed yet
Start(name, quantity, price_text) ==
    /\ pc = "ready"
    /\ ingredient_name = name
    /\ quantity_input = quantity
    /\ price_input = price_text
    /\ parsed = NotCalled
    /\ prev_parsed = NotCalled
    /\ result = NoOutcome
    /\ divisor = None
    /\ upload = NoUpload
    /\ response = NoResponse
    /\ selected_unit = <<"k", "g">>
    /\ results = NoResults
    /\ error_message = NoError
    /\ shown_for = NoEvent

\* the /calculate request bodies
Init ==
    \/ \E name \in Names \cup {Rice, Oil}, quantity \in RequestQuantities,
          price_text \in RequestPrices :
           Start(name, quantity, price_text)
    \/ \E quantity \in HugeTexts, price_text \in {<<"2">>, <<"i", "n", "f">>} :
           Start(<<"X">>, quantity, price_text)

\* quantity texts typed character by character
InitTexts == \E quantity \in ShortTexts : Start(<<"X">>, quantity, <<"2">>)

\* quantity texts generated from counts, amounts and units
InitUnits ==
    \E quantity \in UnitTexts \cup HugeTexts : Start(<<"X">>, quantity, <<"2">>)

\* a call of PricingCalculator.parse_quantity on the quantity text
ParseQuantity ==
    /\ pc \in {"ready", "retyped"}
    /\ parsed' = parse_quantity(quantity_input)
    /\ pc' = IF pc = "ready" THEN "parsed" ELSE "reparsed"
    /\ UNCHANGED <<ingredient_name, quantity_input, price_input, prev_parsed,
                   result, divisor, bulk_vars, form_vars>>

\* the route /calculate: one call of PricingCalculator.calculate_pricing
Calculate ==
    /\ pc = "ready"
    /\ \E ties \in [1..3 -> TieDirs] :
        result' = calculate_pricing(ingredient_name, quantity_input, price_input, ties)
    /\ divisor' = division_mass(ingredient_name, quantity_input, price_input)
    /\ pc' = "priced"
    /\ UNCHANGED <<ingredient_name, quantity_input, price_input, parsed, prev_parsed,
                   bulk_vars, form_vars>>

InsertAt(s, i, c) == SubSeq(s, 1, i) \o <<c>> \o SubSeq(s, i + 1, Len(s))

RemoveAt(s, i) == SubSeq(s, 1, i - 1) \o SubSeq(s, i + 1, Len(s))

SwapCase(s, i) ==
    [s EXCEPT ![i] = IF s[i] \in LowerLetters THEN UpperChar(s[i]) ELSE LowerChar(s[i])]

\* the same quantity typed again with one whitespace character more or less,
\* or with one letter in the other case
Retyped(s) ==
    {InsertAt(s, i, c) : i \in 0..Len(s), c \in Whitespace}
    \cup {RemoveAt(s, i) : i \in {j \in 1..Len(s) : s[j] \in Whitespace}}
    \cup {SwapCase(s, i) : i \in {j \in 1..Len(s) : s[j] \in LowerLetters \cup UpperLetters}}

Retype ==
    /\ pc = "parsed"
    /\ \E t \in Retyped(quantity_input) : quantity_input' = t
    /\ prev_parsed' = parsed
    /\ pc' = "retyped"
    /\ UNCHANGED <<ingredient_name, price_input, parsed, result, divisor,
                   bulk_vars, form_vars>>

Next == Calculate \/ ParseQuantity

Spec == Init /\ [][Next]_vars

NextTexts == ParseQuantity \/ Retype

SpecTexts == InitTexts /\ [][NextTexts]_vars

NextUnits == ParseQuantity

SpecUnits == InitUnits /\ [][NextUnits]_vars

\* an /upload request received and not yet handled
StartUpload(req) ==
    /\ pc = "uploading"
    /\ ingredient_name = <<>>
    /\ quantity_input = <<>>
    /\ price_input = <<>>
    /\ parsed = NotCalled
    /\ prev_parsed = NotCalled
    /\ result = NoOutcome
    /\ divisor = None
    /\ upload = req
    /\ response = NoResponse
    /\ selected_unit = <<"k", "g">>
    /\ results = NoResults
    /\ error_message = NoError
    /\ shown_for = NoEvent

\* the /upload requests: every combination of file part, filename and
\* readability with a one-row file, and every data frame under an allowed name
InitBulk ==
    \/ \E has_file \in BOOLEAN, filename \in Filenames, readable \in BOOLEAN :
           StartUpload(Request(has_file, filename, readable, <<GoodRow>>))
    \/ \E filename \in {<<"a", ".", "c", "s", "v">>, <<"a", ".", "x", "l", "s", "x">>},
          df \in ShortFrames \cup LongFrames \cup OtherFrames :
           StartUpload(Request(TRUE, filename, TRUE, df))

\* the route /upload: one call of upload_file
UploadFile ==
    /\ pc = "uploading"
    /\ \E down \in SUBSET TiePoints(upload.df) :
        response' = upload_file(upload, down)
    /\ pc' = "uploaded"
    /\ UNCHANGED <<ingredient_name, quantity_input, price_input, parsed, prev_parsed,
                   result, divisor, upload, form_vars>>

NextBulk == UploadFile

SpecBulk == InitBulk /\ [][NextBulk]_vars

\* the events of the form, as values of pc
FormEvents ==
    {"set_ingredient_name", "set_quantity_input", "set_price_input",
     "set_selected_unit", "calculate_pricing", "clear_form"}

\* PricingState as constructed (lines 8-13)
InitForm ==
    /\ pc = "form"
    /\ ingredient_name = <<>>
    /\ quantity_input = <<>>
    /\ price_input = <<>>
    /\ parsed = NotCalled
    /\ prev_parsed = NotCalled
    /\ result = NoOutcome
    /\ divisor = None
    /\ upload = NoUpload
    /\ response = NoResponse
    /\ selected_unit = <<"k", "g">>
    /\ results = NoResults
    /\ error_message = NoError
    /\ shown_for = NoEvent

\* the variables no event of the form touches
other_vars == <<parsed, prev_parsed, result, divisor, bulk_vars>>

set_ingredient_name ==
    /\ pc \in FormEvents \cup {"form"}
    /\ \E name \in FormNames : ingredient_name' = name
    /\ pc' = "set_ingredient_name"
    /\ UNCHANGED <<quantity_input, price_input, form_vars, other_vars>>

\* set_quantity_input also clearing the results
set_quantity_input_clearing ==
    /\ pc \in FormEvents \cup {"form"}
    /\ \E quantity \in FormQuantities : quantity_input' = quantity
    /\ results' = NoResults
    /\ pc' = "set_quantity_input"
    /\ UNCHANGED <<ingredient_name, price_input, selected_unit, error_message,
                   shown_for, other_vars>>

set_quantity_input ==
    /\ pc \in FormEvents \cup {"form"}
    /\ \E quantity \in FormQuantities : quantity_input' = quantity
    /\ pc' = "set_quantity_input"
    /\ UNCHANGED <<ingredient_name, price_input, form_vars, other_vars>>

set_price_input ==
    /\ pc \in FormEvents \cup {"form"}
    /\ \E price \in FormPrices : price_input' = price
    /\ pc' = "set_price_input"
    /\ UNCHANGED <<ingredient_name, quantity_input, form_vars, other_vars>>

set_selected_unit ==
    /\ pc \in FormEvents \cup {"form"}
    /\ \E unit \in FormUnits : selected_unit' = unit
    /\ pc' = "set_selected_unit"
    /\ UNCHANGED <<ingredient_name, quantity_input, price_input, results,
                   error_message, shown_for, other_vars>>

\* calculate_pricing without lines 68-69: a failing check leaves the results
\* of the event before
PricingState_calculate_pricing_keeping ==
    /\ pc \in FormEvents \cup {"form"}
    /\ LET out == form_pricing(ingredient_name, quantity_input, price_input)
       IN  /\ results' = IF out.error_message # NoError THEN results ELSE out.results
           /\ error_message' = out.error_message
    /\ shown_for' = Event(ingredient_name, quantity_input, price_input)
    /\ pc' = "calculate_pricing"
    /\ UNCHANGED <<ingredient_name, quantity_input, price_input, selected_unit,
                   other_vars>>

\* the event PricingState.calculate_pricing
PricingState_calculate_pricing ==
    /\ pc \in FormEvents \cup {"form"}
    /\ LET out == form_pricing(ingredient_name, quantity_input, price_input)
       IN  /\ results' = out.results
           /\ error_message' = out.error_message
    /\ shown_for' = Event(ingredient_name, quantity_input, price_input)
    /\ pc' = "calculate_pricing"
    /\ UNCHANGED <<ingredient_name, quantity_input, price_input, selected_unit,
                   other_vars>>

clear_form ==
    /\ pc \in FormEvents \cup {"form"}
    /\ ingredient_name' = <<>>
    /\ quantity_input' = <<>>
    /\ price_input' = <<>>
    /\ selected_unit' = <<"k", "g">>
    /\ results' = NoResults
    /\ error_message' = NoError
    /\ shown_for' = NoEvent
    /\ pc' = "clear_form"
    /\ UNCHANGED other_vars

NextForm ==
    \/ set_ingredient_name
    \/ set_quantity_input
    \/ set_price_input
    \/ set_selected_unit
    \/ PricingState_calculate_pricing
    \/ clear_form

SpecForm == InitForm /\ [][NextForm]_vars

---------------------------------------------------------------------------
(* Claims about PricingCalculator.calculate_pricing (specification Spec) *)

\* a text that is empty or consists of whitespace only
IsBlank(text) == \A i \in 1..Len(text) : text[i] \in Whitespace

Priced == pc = "priced"

\* C1: calculate_pricing checks name blank, quantity blank, price blank, price
\* not a number, quantity parse error, mass <= 0 in this order; the earliest
\* failing check alone decides the returned error, and a quantity parse error
\* is returned with exactly the message parse_quantity produced.
C1_FirstFailingCheckWins ==
    Priced =>
        LET price == float(price_input)
            pq    == parse_quantity(quantity_input)
        IN  IF IsBlank(ingredient_name) THEN result.error = EnterName
            ELSE IF IsBlank(quantity_input) THEN result.error = EnterQuantity
            ELSE IF IsBlank(price_input) THEN result.error = EnterPrice
            ELSE IF price.k = "ValueError" THEN result.error = EnterValidPrice
            ELSE IF pq.grams = None THEN result.error = pq.error /\ pq.error # NoError
            ELSE IF LeZero(pq.grams) THEN result.error = NonPositive
            ELSE result.error = NoError

\* a request that fails the price check and the quantity parse at once
C1_Witness ==
    /\ Priced
    /\ ~IsBlank(ingredient_name)
    /\ quantity_input = <<"a", "b", "c">>
    /\ price_input = <<"a">>
    /\ parse_quantity(quantity_input).error = InvalidFormat
    /\ result.error = EnterValidPrice

\* C10: calculate_pricing returns without raising; the outcome is either a
\* success (success true, empty error, results with exactly the keys kg, g,
\* mg) or a failure (success false, non-empty error, empty results), and in
\* both cases ingredient_name is the name passed in, unchanged.
C10_OutcomeShape ==
    Priced =>
        /\ result.raised = ""
        /\ \/ /\ result.success
              /\ result.error.msg = ""
              /\ result.results.keys = {"kg", "g", "mg"}
           \/ /\ ~result.success
              /\ result.error.msg # ""
              /\ result.results.keys = {}
        /\ result.ingredient_name = ingredient_name

\* a success and (in another request) a failure that keeps a padded name
C10_Witness ==
    /\ Priced
    /\ ingredient_name = <<" ", "X", "\t">>
    /\ quantity_input = <<"0", "g">>
    /\ ~result.success
    /\ result.error = NonPositive
    /\ result.ingredient_name = <<" ", "X", "\t">>

\* C7: calculate_pricing never divides by a non-positive mass: a parsed mass
\* <= 0 with a valid name and price gives the failure "Quantity must be greater
\* than zero.", and every success was computed from a mass strictly greater
\* than zero.
C7_PositiveMassOnly ==
    Priced =>
        LET price == float(price_input)
            pq    == parse_quantity(quantity_input)
        IN  /\ ( /\ ~IsBlank(ingredient_name)
                 /\ ~IsBlank(price_input)
                 /\ price.k # "ValueError"
                 /\ pq.grams # None
                 /\ LeZero(pq.grams) )
               => (~result.success /\ result.error = NonPositive /\ divisor = None)
            /\ result.success => GtZero(divisor)
            /\ result.raised = ""

\* x * 10^nd for a finite x with at most nd decimal places
Scaled(x, nd) == x.n * (Pow10(nd) \div x.d)

IsDecimal(x, nd) == x.k = "fin" /\ Pow10(nd) % x.d = 0

\* x has at most nd decimal places and no such decimal is nearer to num/den
\* divided by 10^nd
NearestTo(x, nd, num, den) ==
    IsDecimal(x, nd) /\ 2 * Abs(Scaled(x, nd) * den - num) <= den

\* C8: on every success, with pricePerGram = price / massGrams, the figures are
\* kg = pricePerGram * 1000 rounded to 2 decimal places, g = pricePerGram
\* rounded to 4 and mg = pricePerGram / 1000 rounded to 6 (a price-per-gram
\* that is not finite is passed through); ("Rice", "10x100g", "1000") gives
\* 1000.00, 1.0000, 0.001000 and ("Oil", "2l", "200") gives 100.00, 0.1000,
\* 0.000100.
C8_RoundedFigures ==
    (Priced /\ result.success) =>
        LET price == float(price_input)
            r     == result.results
            PN    == price.n * divisor.d
            PD    == price.d * divisor.n
        IN  /\ (price.k = "fin" /\ divisor.k = "fin") =>
                  /\ PD > 0
                  /\ NearestTo(r.kg, 2, 100000 * PN, PD)
                  /\ NearestTo(r.g, 4, 10000 * PN, PD)
                  /\ NearestTo(r.mg, 6, 1000 * PN, PD)
            /\ (price.k = "fin" /\ divisor.k = "inf") =>
                  r = Results(Fin(0, 1), Fin(0, 1), Fin(0, 1))
            /\ (price.k # "fin" \/ divisor.k = "nan") =>
                  {r.kg.k, r.g.k, r.mg.k} \subseteq {"inf", "nan"}
            /\ ( /\ ingredient_name = Rice
                 /\ quantity_input = <<"1", "0", "x", "1", "0", "0", "g">>
                 /\ price_input = <<"1", "0", "0", "0">> )
               => r = Results(Fin(1000, 1), Fin(1, 1), Fin(1, 1000))
            /\ ( /\ ingredient_name = Oil
                 /\ quantity_input = <<"2", "l">>
                 /\ price_input = <<"2", "0", "0">> )
               => r = Results(Fin(100, 1), Fin(1, 10), Fin(1, 10000))

\* the Oil example has been priced
C8_Witness ==
    /\ Priced
    /\ ingredient_name = Oil
    /\ quantity_input = <<"2", "l">>
    /\ price_input = <<"2", "0", "0">>
    /\ result.success
    /\ divisor = Fin(2000, 1)
    /\ result.results.g = Fin(1, 10)

FiniteFigures ==
    /\ Priced
    /\ result.success
    /\ result.results.kg.k = "fin"
    /\ result.results.g.k = "fin"
    /\ result.results.mg.k = "fin"

\* C9 as stated: in every success the kg figure equals 1000 times the g figure
\* and the g figure equals 1000 times the mg figure.
C9_ExactScaling ==
    FiniteFigures =>
        /\ result.results.kg = FMul(result.results.g, Fin(1000, 1))
        /\ result.results.g = FMul(result.results.mg, Fin(1000, 1))

\* C9 as amended: in every success with finite figures the kg figure is within
\* 0.05 of 1000 times the g figure, and the g figure is within 0.0005 of 1000
\* times the mg figure (each figure is rounded on its own, to 2, 4 and 6
\* decimal places).
C9_RoundedScaling ==
    FiniteFigures =>
        LET r == result.results
        IN  /\ IsDecimal(r.kg, 2) /\ IsDecimal(r.g, 4) /\ IsDecimal(r.mg, 6)
            /\ Abs(Scaled(r.kg, 2) - 10 * Scaled(r.g, 4)) <= 5
            /\ Abs(Scaled(r.g, 4) - 10 * Scaled(r.mg, 6)) <= 5

\* a success whose kg figure is not 1000 times its g figure
C9_Witness ==
    /\ FiniteFigures
    /\ result.results.kg # FMul(result.results.g, Fin(1000, 1))
    /\ result.results.g # Fin(0, 1)

---------------------------------------------------------------------------
(* Claims about PricingCalculator.parse_quantity (SpecTexts, SpecUnits) *)

Parsed == pc \in {"parsed", "reparsed"}

NoLetters(text) ==
    \A i \in 1..Len(text) : text[i] \notin (LowerLetters \cup UpperLetters)

\* the first character that is not a space is a digit
StartsWithDigit(text) ==
    \E i \in 1..Len(text) :
        /\ text[i] \in Digits
        /\ \A j \in 1..(i - 1) : text[j] = " "

IsMissingUnit(ret) ==
    ret.grams = None /\ ret.error \in {MissingUnit, MissingUnitMult}

\* the quantity matches the multiplication pattern with an empty unit part
EmptyUnitMult ==
    LET mm == mult_match(normalize(quantity_input))
    IN  mm.matched /\ mm.g3 = <<>>

\* the quantity matches only the single-quantity pattern, with an empty unit part
EmptyUnitSingle ==
    LET mm == mult_match(normalize(quantity_input))
        sm == single_match(normalize(quantity_input))
    IN  ~mm.matched /\ sm.matched /\ sm.g2 = <<>>

\* a text with at least one digit whose only whitespace is the space
\* character, which every reading of the normalisation removes
PlainQuantity(text) ==
    /\ \E i \in 1..Len(text) : text[i] \in Digits
    /\ \A i \in 1..Len(text) : text[i] \notin (Whitespace \ {" "})

\* C2 as stated: every quantity text without a unit is rejected with a
\* missing-unit error and no mass: every text with no letters at all, every
\* single quantity with an empty unit part and every multiplication with an
\* empty unit part (stated for the texts that contain a digit).
C2_NoUnitIsMissingUnit ==
    ( /\ Parsed
      /\ PlainQuantity(quantity_input)
      /\ NoLetters(quantity_input) \/ EmptyUnitSingle \/ EmptyUnitMult )
        => IsMissingUnit(parsed)

\* C2 as amended: a text with no letters gets a missing-unit error when its
\* first character other than a space is a digit and the invalid-format error
\* otherwise; a single quantity with an empty unit part gets the missing-unit
\* error and a multiplication with an empty unit part the missing-unit error of
\* the multiplication format; none of them gets a mass.
C2_MissingUnit ==
    Parsed =>
        /\ (NoLetters(quantity_input) /\ StartsWithDigit(quantity_input))
              => IsMissingUnit(parsed)
        /\ (NoLetters(quantity_input) /\ ~StartsWithDigit(quantity_input))
              => parsed = Ret(None, InvalidFormat)
        /\ EmptyUnitSingle => parsed = Ret(None, MissingUnit)
        /\ EmptyUnitMult => parsed = Ret(None, MissingUnitMult)

\* a multiplication without a unit has been rejected
C2_Witness ==
    /\ pc = "parsed"
    /\ quantity_input = <<"2", "x", "2">>
    /\ parsed = Ret(None, MissingUnitMult)

\* the normalisation the claims name: all whitespace removed, lower case
NotWhitespaceChar(c) == c \notin Whitespace

Normalized(text) == lower(SelectSeq(text, NotWhitespaceChar))

\* the whole text s is <count><x|*><amount><unit> or <amount><unit>
IsWholeToken(s) ==
    LET mm == mult_match(s)
        sm == single_match(s)
    IN  \/ mm.matched /\ mm.g3 # <<>> /\ Len(mm.g1) + 1 + Len(mm.g2) + Len(mm.g3) = Len(s)
        \/ sm.matched /\ sm.g2 # <<>> /\ Len(sm.g1) + Len(sm.g2) = Len(s)

\* C3: parse_quantity returns a mass only when the whole normalized text is a
\* token <amount><unit> or <count><x|*><amount><unit>; for any other text it
\* returns an error and no mass, never a result computed from a prefix.
C3_WholeTextOnly ==
    Parsed =>
        /\ parsed.grams # None => IsWholeToken(Normalized(quantity_input))
        /\ parsed.grams = None => parsed.error # NoError

\* C6: inserting or removing a whitespace character (space, tab, newline) or
\* changing the case of a letter does not change what parse_quantity returns.
C6_SameAfterRetyping == pc = "reparsed" => parsed = prev_parsed

\* the generated amounts with their values num/den
AmountForms ==
    {[text |-> DigitsOf(w) \o f.text, num |-> w * f.den + f.num, den |-> f.den] :
        w \in 0..MaxWhole,
        f \in {[text |-> <<>>, num |-> 0, den |-> 1],
               [text |-> <<".", "5">>, num |-> 1, den |-> 2],
               [text |-> <<".", "2", "5">>, num |-> 1, den |-> 4]}}

\* the generated "<count><sep><amount>" prefixes with the product count * amount
ProductForms ==
    {[text |-> DigitsOf(c) \o <<sep>> \o a.text, num |-> c * a.num, den |-> a.den] :
        c \in 0..MaxCount, sep \in {"x", "*"}, a \in AmountForms}

\* text is the prefix pre followed by a non-empty run of lower-case letters
HasUnitAfter(text, pre) ==
    /\ Len(text) > Len(pre)
    /\ SubSeq(text, 1, Len(pre)) = pre
    /\ \A i \in (Len(pre) + 1)..Len(text) : text[i] \in LowerLetters

UnitAfter(text, pre) == SubSeq(text, Len(pre) + 1, Len(text))

\* the unit table of the specification: grams per unit as num/den
TableFactor(unit) ==
    IF unit \in {<<"k", "g">>, <<"k", "i", "l", "o", "g", "r", "a", "m">>,
                 <<"k", "i", "l", "o", "g", "r", "a", "m", "s">>,
                 <<"l">>, <<"l", "t", "r">>, <<"l", "i", "t", "r", "e">>,
                 <<"l", "i", "t", "r", "e", "s">>, <<"l", "i", "t", "e", "r">>,
                 <<"l", "i", "t", "e", "r", "s">>}
    THEN [num |-> 1000, den |-> 1]
    ELSE IF unit \in {<<"g">>, <<"g", "m">>, <<"g", "r", "a", "m">>,
                      <<"g", "r", "a", "m", "s">>, <<"m", "l">>,
                      <<"m", "i", "l", "l", "i", "l", "i", "t", "r", "e">>,
                      <<"m", "i", "l", "l", "i", "l", "i", "t", "r", "e", "s">>,
                      <<"m", "i", "l", "l", "i", "l", "i", "t", "e", "r">>,
                      <<"m", "i", "l", "l", "i", "l", "i", "t", "e", "r", "s">>}
    THEN [num |-> 1, den |-> 1]
    ELSE IF unit \in {<<"m", "g">>, <<"m", "i", "l", "l", "i", "g", "r", "a", "m">>,
                      <<"m", "i", "l", "l", "i", "g", "r", "a", "m", "s">>}
    THEN [num |-> 1, den |-> 1000]
    ELSE [num |-> 0, den |-> 0]

\* what the unit table gives for the weight form.num/form.den in the unit
Converted(form, unit) ==
    LET f == TableFactor(unit)
    IN  IF f.den = 0 THEN Ret(None, UnsupportedUnit(unit))
        ELSE Ret(Fin(form.num * f.num, form.den * f.den), NoError)

C5_UnitTable ==
    pc = "parsed" =>
        \A form \in AmountForms \cup ProductForms :
            HasUnitAfter(quantity_input, form.text)
            => parsed = Converted(form, UnitAfter(quantity_input, form.text))

\* 2.5 litres and, in another run, an unknown unit have been resolved
C5_Witness ==
    /\ pc = "parsed"
    /\ quantity_input = <<"2", ".", "5", "l", "i", "t", "r", "e", "s">>
    /\ parsed = Ret(Fin(2500, 1), NoError)

---------------------------------------------------------------------------
(* Claims about upload_file (specification SpecBulk) *)

Uploaded == pc = "uploaded"

\* a request that passes the checks of the file part, the filename, the
\* reader, the column count and the row limit
Accepted(req) ==
    /\ req.has_file
    /\ allowed_file(req.filename)
    /\ req.readable
    /\ columns(req.df) = 3
    /\ Len(req.df) <= MaxItems

\* the quantity cell is missing or its text is no quantity
BadQuantity(row) ==
    \/ ~notna(row[2])
    \/ parse_quantity(strip(str(row[2]))).grams.k = "none"

\* the price cell is missing or a text that is no number
BadPrice(row) ==
    \/ ~notna(row[3])
    \/ row[3].t = "str" /\ float(row[3].s).k = "ValueError"

\* the name cell is missing or blank
BlankName(row) == ~notna(row[1]) \/ IsBlank(str(row[1]))

BadRow(row) == BadQuantity(row) \/ BadPrice(row) \/ BlankName(row)

\* a row without bad content whose quantity is a positive mass
SoundRow(row) ==
    /\ ~BadRow(row)
    /\ GtZero(parse_quantity(strip(str(row[2]))).grams)

IsFailure(outcome) ==
    outcome.status # CalculatedSuccessfully /\ outcome.results = None

\* C11: for every accepted 3-column file of at most 1000 rows the batch is not
\* aborted: the response is a success with one outcome per row, every row with
\* bad content (unparseable quantity, non-numeric or missing price, blank name)
\* has a failure outcome, and every sound row is calculated.
C11_RowFailuresIsolated ==
    (Uploaded /\ Accepted(upload)) =>
        /\ response.code = 200
        /\ response.success
        /\ Len(response.results) = Len(upload.df)
        /\ \A i \in 1..Len(upload.df) :
            /\ BadRow(upload.df[i]) => IsFailure(response.results[i])
            /\ SoundRow(upload.df[i]) =>
                response.results[i].status = CalculatedSuccessfully

\* the text of a cell as a field of the single calculation, empty for a
\* missing cell
CellText(c) == IF notna(c) THEN str(c) ELSE <<>>

\* PricingCalculator.calculate_pricing on the name, quantity and price of a row
Single(row) ==
    calculate_pricing(CellText(row[1]), CellText(row[2]), CellText(row[3]),
                      [i \in 1..3 |-> "up"])

QuantityPresent(row) == ~quantity_missing(quantity_of(row))

\* C12: whenever upload_file reports row outcomes, every row whose quantity
\* cell is present has status "Calculated successfully" if and only if
\* PricingCalculator.calculate_pricing succeeds on the same name, quantity and
\* price, and has an "Error: ..." status otherwise.
C12_SameAsSingle ==
    (Uploaded /\ response.code = 200) =>
        \A i \in 1..Len(upload.df) :
            QuantityPresent(upload.df[i]) =>
                LET status == response.results[i].status
                IN  IF Single(upload.df[i]).success
                    THEN status = CalculatedSuccessfully
                    ELSE status.text = "Error: {parse_error}"

\* a request that passes every check before the row limit
ReachesRowLimit(req) ==
    /\ req.has_file
    /\ allowed_file(req.filename)
    /\ req.readable
    /\ columns(req.df) = 3

\* C13: a 3-column input of more than 1000 rows is rejected with the error of
\* the row limit, no row processed and no row outcome returned; an input of
\* up to 1000 rows, exactly 1000 included, is not rejected: its rows are
\* processed, all of them with one outcome each when no row raises.
C13_RowLimit ==
    (Uploaded /\ ReachesRowLimit(upload)) =>
        IF Len(upload.df) > MaxItems
        THEN /\ response.code = 400
             /\ response.error = TooManyItems
             /\ response.results = <<>>
             /\ response.processed = 0
        ELSE /\ response.code # 400
             /\ response.error # TooManyItems
             /\ (\A i \in 1..Len(upload.df) : ~row_raises(upload.df[i])) =>
                    /\ response.code = 200
                    /\ response.processed = Len(upload.df)
                    /\ Len(response.results) = Len(upload.df)

\* a file of 1001 rows has been rejected
C13_Witness ==
    /\ Uploaded
    /\ ReachesRowLimit(upload)
    /\ Len(upload.df) = MaxItems + 1
    /\ response.error = TooManyItems

\* the quantity cell is empty, NaN or "none"
QuantityCellEmpty(row) ==
    \/ ~notna(row[2])
    \/ IsBlank(str(row[2]))
    \/ lower(strip(str(row[2]))) \in {<<"n", "a", "n">>, <<"n", "o", "n", "e">>}

\* the status is one of the three kinds of status string
KnownStatus(status) ==
    \/ status = CalculatedSuccessfully
    \/ status = QuantityNotProvided
    \/ status.text = "Error: {parse_error}" /\ status.error # NoError

\* the response holds one outcome per row of the data frame, the i-th outcome
\* being that of the i-th row, each with a status of the three kinds, the
\* not-provided one exactly for an empty quantity cell
OutcomesMatchRows ==
    /\ Len(response.results) = Len(upload.df)
    /\ response.total_items = Len(upload.df)
    /\ \A i \in 1..Len(upload.df) :
        LET row     == upload.df[i]
            outcome == response.results[i]
        IN  /\ outcome.ingredient_name = strip(str(row[1]))
            /\ outcome.price_input = (IF notna(row[3]) THEN row[3] ELSE IntCell(0))
            /\ outcome.quantity_input \in {strip(str(row[2])), NotProvided}
            /\ KnownStatus(outcome.status)
            /\ outcome.status = QuantityNotProvided <=> QuantityCellEmpty(row)

\* C14: for every accepted bulk input upload_file returns exactly one outcome
\* per input row, in the order of the rows, each with a status that is
\* "Calculated successfully", "Error: <reason>" or the quantity-not-provided
\* message, the last exactly when the quantity cell is empty, NaN or "none".
C14_OneOutcomePerRow == (Uploaded /\ Accepted(upload)) => OutcomesMatchRows

\* the same for the uploads that upload_file answers with status 200
OutcomesOfSuccess == (Uploaded /\ response.code = 200) => OutcomesMatchRows

---------------------------------------------------------------------------
(* Claims about PricingState (specification SpecForm) *)

HasResults == results # NoResults

HasError == error_message # NoError

\* C15: results and error_message are never both non-empty; immediately
\* after a calculate_pricing event exactly one of them is non-empty, and
\* results, when it is the one, holds exactly the keys kg, g and mg.
C15_ResultsOrError ==
    /\ ~(HasResults /\ HasError)
    /\ pc = "calculate_pricing" =>
        /\ HasResults # HasError
        /\ HasResults => results.keys = {"kg", "g", "mg"}

\* a calculate_pricing event has succeeded: results holds the three figures
\* and error_message is empty
C15_Witness ==
    /\ pc = "calculate_pricing"
    /\ HasResults
    /\ ~HasError
    /\ results.kg.k = "fin"

Setters ==
    {"set_ingredient_name", "set_quantity_input", "set_price_input", "set_selected_unit"}

\* the step is a setter event that leaves results and error_message alone and
\* changes no input field but its own
SetterFrame ==
    pc' \in Setters =>
        /\ results' = results
        /\ error_message' = error_message
        /\ pc' # "set_ingredient_name" => ingredient_name' = ingredient_name
        /\ pc' # "set_quantity_input" => quantity_input' = quantity_input
        /\ pc' # "set_price_input" => price_input' = price_input
        /\ pc' # "set_selected_unit" => selected_unit' = selected_unit

\* results and error_message are those of calculate_pricing over the inputs
\* of the most recent such event, and empty when there was none since the
\* form was constructed or cleared
ShownIsLastCalculated ==
    IF shown_for.calculated
    THEN LET out == form_pricing(shown_for.ingredient_name, shown_for.quantity_input,
                                 shown_for.price_input)
         IN  results = out.results /\ error_message = out.error_message
    ELSE results = NoResults /\ error_message = NoError

\* the fields of PricingState as constructed
FormInitial ==
    /\ ingredient_name = <<>>
    /\ quantity_input = <<>>
    /\ price_input = <<>>
    /\ selected_unit = <<"k", "g">>
    /\ results = NoResults
    /\ error_message = NoError

\* C16: every setter event changes only its own field and leaves results and
\* error_message unchanged, so what is displayed is always the outcome of the
\* most recent calculate_pricing event over the inputs of that event (empty
\* after clear_form), even when the inputs were edited since; clear_form
\* returns the form to its initial state.
C16_SettersKeepResults ==
    /\ [][SetterFrame]_vars
    /\ [](ShownIsLastCalculated)
    /\ [](pc = "clear_form" => FormInitial)

\* results of an earlier event are displayed while the quantity has been
\* edited to a text for which the calculation fails
C16_Witness ==
    /\ pc = "set_quantity_input"
    /\ shown_for.calculated
    /\ HasResults
    /\ quantity_input # shown_for.quantity_input
    /\ form_pricing(ingredient_name, quantity_input, price_input).error_message # NoError

====
